---- MODULE Spec2Model ----
(***************************************************************************)
(* fix-symbols.py: one run of the command-line tool.  The run checks its   *)
(* arguments, checks that the input exists, reads it whole, replaces every *)
(* occurrence of one long symbol name by a short one padded with zero      *)
(* bytes, writes the result to a path derived from the input path and      *)
(* prints two messages.                                                    *)
(*                                                                         *)
(* Bytes are the integers 0..255, a buffer is a sequence of bytes.         *)
(* A path is a sequence of one-character strings.                          *)
(***************************************************************************)
EXTENDS Integers, Sequences, FiniteSets, TLC

VARIABLES
    argv,           \* sys.argv: <<script, arg1, ...>>
    fs,             \* the file system: path -> content, for the files that exist
    fs0,            \* the file system when the run started (history)
    fault,          \* what the environment refuses: "none", "read", "open_write", "write"
    pc,             \* position of the run
    file_path,      \* local of __main__ / parameter of shorten_symbol_names
    data,           \* local: the bytes read
    modified_data,  \* local: the bytes after the replacement
    output_path,    \* local: the derived path
    fixed_path,     \* local of __main__: the value shorten_symbol_names returned
    handles,        \* the file objects that are open
    opened,         \* the open() calls made so far, in order (history)
    probed,         \* the os.path.exists() calls made so far, in order (history)
    stdout,         \* the lines printed
    raised,         \* the exception that ended the run, "none" if none
    exit_status     \* the exit status, -1 while the process runs

vars == << argv, fs, fs0, fault, pc, file_path, data, modified_data, output_path,
           fixed_path, handles, opened, probed, stdout, raised, exit_status >>

(***************************************************************************)
(* Bounds of the model.                                                    *)
(***************************************************************************)
MaxChunks == 3       \* an input buffer is made of at most this many chunks
MaxPathParts == 2    \* a path is made of at most this many parts
MaxExtraArgs == 1    \* positional arguments after the first

(***************************************************************************)
(* The hardcoded pattern pair.                                             *)
(***************************************************************************)
old_pattern == <<
    46, 98, 115, 115, 46, 95, 90, 78, 57, 56, 95, 36, 76, 84, 36, 115, 119, 105, 116,
    99, 104, 98, 111, 97, 114, 100, 95, 115, 111, 108, 97, 110, 97, 46, 46, 112, 114, 111,
    103, 114, 97, 109, 95, 105, 100, 46, 46, 83, 87, 73, 84, 67, 72, 66, 79, 65, 82,
    68, 95, 80, 82, 79, 71, 82, 65, 77, 95, 73, 68, 36, 117, 50, 48, 36, 97, 115,
    36, 117, 50, 48, 36, 99, 111, 114, 101, 46, 46, 111, 112, 115, 46, 46, 100, 101, 114,
    101, 102, 46, 46, 68, 101, 114, 101, 102, 36, 71, 84, 36, 53, 100, 101, 114, 101, 102,
    49, 49, 95, 95, 115, 116, 97, 98, 105, 108, 105, 116, 121, 52, 76, 65, 90, 89, 49,
    55, 104, 97, 51, 98, 56, 57, 101, 100, 98, 51, 101, 53, 50, 54, 99, 97, 57, 69 >>

new_pattern == <<
    46, 98, 115, 115, 46, 95, 90, 78, 95, 115, 104, 111, 114, 116 >>

Zeros(n) == [ k \in 1..n |-> 0 ]

\* a padding that is one byte short
padded_short == new_pattern \o Zeros(Len(old_pattern) - Len(new_pattern) - 1)

\* the replacement left as it is, without padding
padded_none == new_pattern

\* new_pattern + b'\x00' * (len(old_pattern) - len(new_pattern));
\* bytes * n is empty for n <= 0, and so is Zeros(n)
padded_new_pattern == new_pattern \o Zeros(Len(old_pattern) - Len(new_pattern))

dot_so == << ".", "s", "o" >>

fixed_so == << "_", "f", "i", "x", "e", "d", ".", "s", "o" >>

(***************************************************************************)
(* bytes.replace and str.replace: every occurrence, leftmost first, none   *)
(* overlapping an earlier one.  old is never empty here.                   *)
(***************************************************************************)
\* s.find(old), 1-based; 0 when old does not occur
Find(s, old) ==
    LET M == { i \in 1..(Len(s) - Len(old) + 1) :
                  s[i] = old[1] /\ SubSeq(s, i, i + Len(old) - 1) = old }
    IN  IF M = {} THEN 0 ELSE CHOOSE i \in M : \A j \in M : i <= j

\* s.replace(old, new, 1): the first occurrence only
ReplaceFirst(s, old, new) ==
    LET i == Find(s, old)
    IN  IF i = 0 THEN s
        ELSE SubSeq(s, 1, i - 1) \o new \o SubSeq(s, i + Len(old), Len(s))

\* s.replace(old, new)
RECURSIVE Replace(_, _, _)
Replace(s, old, new) ==
    LET i == Find(s, old)
    IN  IF i = 0 THEN s
        ELSE SubSeq(s, 1, i - 1) \o new
                 \o Replace(SubSeq(s, i + Len(old), Len(s)), old, new)

\* data.replace(old_pattern, new_pattern, 1): the first occurrence only
PatchFirst(d) == ReplaceFirst(d, old_pattern, padded_new_pattern)

\* data.replace(old_pattern, new_pattern)
Patch(d) == Replace(d, old_pattern, padded_new_pattern)

\* file_path.replace('.so', '_fixed.so', 1): the first occurrence only
DerivePathFirst(p) == ReplaceFirst(p, dot_so, fixed_so)

\* file_path.replace('.so', '_fixed.so')
DerivePath(p) == Replace(p, dot_so, fixed_so)

(***************************************************************************)
(* The lines the program prints.                                           *)
(***************************************************************************)
UsageMsg == [ text |-> "Usage: python fix-symbols.py <path_to_so_file>", path |-> << >> ]

NotFoundMsg(p) == [ text |-> "Error: File {} not found", path |-> p ]

FixedMsg(p) == [ text |-> "Fixed file written to: {}", path |-> p ]

SuccessMsg(p) == [ text |-> "Successfully shortened symbol names in {}", path |-> p ]

(***************************************************************************)
(* The inputs of a run: the argument vector, the file system, and what the *)
(* environment refuses.                                                    *)
(***************************************************************************)
RECURSIVE ConcatN(_, _)
ConcatN(S, n) ==
    IF n = 0 THEN { << >> }
    ELSE { a \o b : a \in S, b \in ConcatN(S, n - 1) }

\* the old pattern, the start of the old pattern ('.bss.'), a zero byte
Chunks == { old_pattern, SubSeq(old_pattern, 1, 5), << 0 >> }

Buffers == UNION { ConcatN(Chunks, n) : n \in 0..MaxChunks }

PathParts == { << "l" >>, dot_so }

Paths == UNION { ConcatN(PathParts, n) : n \in 1..MaxPathParts }

\* the positional arguments after the first
ExtraArgLists == UNION { [ 1..n -> PathParts ] : n \in 0..MaxExtraArgs }

ScriptName == << "f", "i", "x", ".", "p", "y" >>

\* sys.argv[1:]: nothing, or a path and then the extra arguments
ArgLists == { << >> } \cup { << p >> \o e : p \in Paths, e \in ExtraArgLists }

Faults == { "none", "read", "open_write", "write" }

NoFiles == [ q \in {} |-> << >> ]

\* the one file of the file system, when there is one, is the file the first
\* argument names
Init ==
    \E args \in ArgLists, present \in BOOLEAN, B \in Buffers :
        /\ argv = << ScriptName >> \o args
        /\ fs0 = IF present
                 THEN [ q \in { IF args = << >> THEN << "l" >> ELSE args[1] } |-> B ]
                 ELSE NoFiles
        /\ fs = fs0
        /\ fault \in Faults
        /\ pc = "main"
        /\ file_path = << >>
        /\ data = << >>
        /\ modified_data = << >>
        /\ output_path = << >>
        /\ fixed_path = << >>
        /\ handles = {}
        /\ opened = << >>
        /\ probed = << >>
        /\ stdout = << >>
        /\ raised = "none"
        /\ exit_status = -1

(***************************************************************************)
(* The file system calls.                                                  *)
(***************************************************************************)
Exists(p) == p \in DOMAIN fs

\* the file system with the content of p set to c (created when missing)
WithFile(p, c) == (p :> c) @@ fs

\* sys.exit(code), and an exception nobody catches (the interpreter exits with 1)
Exit(code) == pc' = "done" /\ exit_status' = code

(***************************************************************************)
(* __main__                                                                *)
(***************************************************************************)
\* the argument check that lets extra arguments through
BadArgCountTooFew == Len(argv) < 2

\* len(sys.argv) != 2
BadArgCount == Len(argv) # 2

UsageError ==
    /\ pc = "main"
    /\ BadArgCount
    /\ stdout' = Append(stdout, UsageMsg)
    /\ Exit(1)
    /\ UNCHANGED << argv, fs, fs0, fault, file_path, data, modified_data, output_path,
                    fixed_path, handles, opened, probed, raised >>

\* the existence check left out: the call is made whatever the path
NotFoundErrorUnchecked ==
    /\ pc = "main"
    /\ ~ BadArgCount
    /\ ~ Exists(argv[2])
    /\ file_path' = argv[2]
    /\ pc' = "open_in"
    /\ UNCHANGED << argv, fs, fs0, fault, data, modified_data, output_path, fixed_path,
                    handles, opened, probed, stdout, raised, exit_status >>

NotFoundError ==
    /\ pc = "main"
    /\ ~ BadArgCount
    /\ file_path' = argv[2]
    /\ probed' = Append(probed, argv[2])
    /\ ~ Exists(argv[2])
    /\ stdout' = Append(stdout, NotFoundMsg(argv[2]))
    /\ Exit(1)
    /\ UNCHANGED << argv, fs, fs0, fault, data, modified_data, output_path, fixed_path,
                    handles, opened, raised >>

CallShorten ==
    /\ pc = "main"
    /\ ~ BadArgCount
    /\ file_path' = argv[2]
    /\ probed' = Append(probed, argv[2])
    /\ Exists(argv[2])
    /\ pc' = "open_in"
    /\ UNCHANGED << argv, fs, fs0, fault, data, modified_data, output_path, fixed_path,
                    handles, opened, stdout, raised, exit_status >>

(***************************************************************************)
(* shorten_symbol_names(file_path)                                         *)
(***************************************************************************)
\* open(file_path, 'rb') raises: the file is missing or may not be read
OpenInFail ==
    /\ pc = "open_in"
    /\ ~ Exists(file_path) \/ fault = "read"
    /\ opened' = Append(opened, [ path |-> file_path, mode |-> "rb" ])
    /\ raised' = IF Exists(file_path) THEN "OSError" ELSE "FileNotFoundError"
    /\ Exit(1)
    /\ UNCHANGED << argv, fs, fs0, fault, file_path, data, modified_data, output_path,
                    fixed_path, handles, probed, stdout >>

OpenIn ==
    /\ pc = "open_in"
    /\ Exists(file_path) /\ fault # "read"
    /\ opened' = Append(opened, [ path |-> file_path, mode |-> "rb" ])
    /\ handles' = handles \cup { "rb" }
    /\ pc' = "read"
    /\ UNCHANGED << argv, fs, fs0, fault, file_path, data, modified_data, output_path,
                    fixed_path, probed, stdout, raised, exit_status >>

\* data = f.read() on a file object that is never closed
ReadAllNoClose ==
    /\ pc = "read"
    /\ data' = fs[file_path]
    /\ pc' = "replace"
    /\ UNCHANGED << argv, fs, fs0, fault, file_path, modified_data, output_path,
                    fixed_path, handles, opened, probed, stdout, raised, exit_status >>

\* data = f.read(), and the end of the with block closes f
ReadAll ==
    /\ pc = "read"
    /\ data' = fs[file_path]
    /\ handles' = handles \ { "rb" }
    /\ pc' = "replace"
    /\ UNCHANGED << argv, fs, fs0, fault, file_path, modified_data, output_path,
                    fixed_path, opened, probed, stdout, raised, exit_status >>

\* a replacement that insists on finding the pattern (bytes.index)
TransformStrict ==
    /\ pc = "replace"
    /\ IF Find(data, old_pattern) = 0
       THEN /\ raised' = "ValueError"
            /\ Exit(1)
            /\ UNCHANGED << modified_data, output_path >>
       ELSE /\ modified_data' = Patch(data)
            /\ output_path' = DerivePath(file_path)
            /\ pc' = "open_out"
            /\ UNCHANGED << raised, exit_status >>
    /\ UNCHANGED << argv, fs, fs0, fault, file_path, data, fixed_path, handles, opened,
                    probed, stdout >>

\* the padding, the replacement in the buffer and the derivation of the output path
Transform ==
    /\ pc = "replace"
    /\ modified_data' = Patch(data)
    /\ output_path' = DerivePath(file_path)
    /\ pc' = "open_out"
    /\ UNCHANGED << argv, fs, fs0, fault, file_path, data, fixed_path, handles, opened,
                    probed, stdout, raised, exit_status >>

\* open(output_path, 'wb') raises: nothing is created or truncated
OpenOutFail ==
    /\ pc = "open_out"
    /\ fault = "open_write"
    /\ opened' = Append(opened, [ path |-> output_path, mode |-> "wb" ])
    /\ raised' = "OSError"
    /\ Exit(1)
    /\ UNCHANGED << argv, fs, fs0, fault, file_path, data, modified_data, output_path,
                    fixed_path, handles, probed, stdout >>

\* the message printed as soon as the output is open
OpenOutPrintEarly ==
    /\ pc = "open_out"
    /\ fault # "open_write"
    /\ opened' = Append(opened, [ path |-> output_path, mode |-> "wb" ])
    /\ fs' = WithFile(output_path, << >>)
    /\ handles' = handles \cup { "wb" }
    /\ stdout' = Append(stdout, FixedMsg(output_path))
    /\ pc' = "write"
    /\ UNCHANGED << argv, fs0, fault, file_path, data, modified_data, output_path,
                    fixed_path, probed, raised, exit_status >>

\* open(output_path, 'wb'): the file is created, or truncated when it exists
OpenOut ==
    /\ pc = "open_out"
    /\ fault # "open_write"
    /\ opened' = Append(opened, [ path |-> output_path, mode |-> "wb" ])
    /\ fs' = WithFile(output_path, << >>)
    /\ handles' = handles \cup { "wb" }
    /\ pc' = "write"
    /\ UNCHANGED << argv, fs0, fault, file_path, data, modified_data, output_path,
                    fixed_path, probed, stdout, raised, exit_status >>

\* f.write(modified_data) raises after part of the buffer reached the file;
\* the with block closes f and the exception goes on
WriteFail ==
    /\ pc = "write"
    /\ fault = "write"
    /\ \E k \in 0..(IF Len(modified_data) = 0 THEN 0 ELSE Len(modified_data) - 1) :
           fs' = WithFile(output_path, SubSeq(modified_data, 1, k))
    /\ handles' = handles \ { "wb" }
    /\ raised' = "OSError"
    /\ Exit(1)
    /\ UNCHANGED << argv, fs0, fault, file_path, data, modified_data, output_path,
                    fixed_path, opened, probed, stdout >>

\* f.write(modified_data), and the end of the with block closes f
WriteAll ==
    /\ pc = "write"
    /\ fault # "write"
    /\ fs' = WithFile(output_path, modified_data)
    /\ handles' = handles \ { "wb" }
    /\ pc' = "print_fixed"
    /\ UNCHANGED << argv, fs0, fault, file_path, data, modified_data, output_path,
                    fixed_path, opened, probed, stdout, raised, exit_status >>

\* print(f"Fixed file written to: {output_path}"); return output_path
PrintFixed ==
    /\ pc = "print_fixed"
    /\ stdout' = Append(stdout, FixedMsg(output_path))
    /\ fixed_path' = output_path
    /\ pc' = "print_success"
    /\ UNCHANGED << argv, fs, fs0, fault, file_path, data, modified_data, output_path,
                    handles, opened, probed, raised, exit_status >>

\* print(f"Successfully shortened symbol names in {fixed_path}"), end of the script
PrintSuccess ==
    /\ pc = "print_success"
    /\ stdout' = Append(stdout, SuccessMsg(fixed_path))
    /\ Exit(0)
    /\ UNCHANGED << argv, fs, fs0, fault, file_path, data, modified_data, output_path,
                    fixed_path, handles, opened, probed, raised >>

Next ==
    \/ UsageError
    \/ NotFoundError
    \/ CallShorten
    \/ OpenInFail
    \/ OpenIn
    \/ ReadAll
    \/ Transform
    \/ OpenOutFail
    \/ OpenOut
    \/ WriteFail
    \/ WriteAll
    \/ PrintFixed
    \/ PrintSuccess

Spec == Init /\ [][Next]_vars

(***************************************************************************)
(* Vocabulary of the properties.                                           *)
(***************************************************************************)
\* the run was given exactly one argument and it names a file that exists
Ran == Len(argv) = 2 /\ argv[2] \in DOMAIN fs0

\* the output file has been written in full and closed
Written == pc \in { "print_fixed", "print_success" } \/ (pc = "done" /\ exit_status = 0)

\* the output path has been derived
Derived == pc \in { "open_out", "write", "print_fixed", "print_success" }
               \/ (pc = "done" /\ Len(opened) = 2)

\* the offsets (1-based) at which the old pattern occurs in buffer b
Occ(b) == { i \in 1..(Len(b) - Len(old_pattern) + 1) :
               \A k \in 1..Len(old_pattern) : b[i + k - 1] = old_pattern[k] }

\* offset j of buffer b lies inside an occurrence of the old pattern
Covered(b, j) == \E i \in Occ(b) : i <= j /\ j < i + Len(old_pattern)

\* the offsets at which '.so' occurs in path p
PathOcc(p) == { i \in 1..(Len(p) - 2) : p[i] = "." /\ p[i + 1] = "s" /\ p[i + 2] = "o" }

\* the occurrences of '.so' in p that start before offset j
Before(p, j) == Cardinality({ i \in PathOcc(p) : i < j })

\* C1: the buffer written to the output path has exactly as many bytes as the
\* input buffer, whatever the number of occurrences of the old pattern.
C1_LengthPreserved ==
    Written => Len(fs[output_path]) = Len(fs0[file_path])

C1_Witness ==
    /\ Written
    /\ Cardinality(Occ(fs0[file_path])) >= 2
    /\ Len(fs[output_path]) > 2 * Len(old_pattern)

\* C2: at every offset where the old pattern occurs in the input, the output
\* holds the new pattern followed by zero bytes out to the length of the old
\* pattern, and every byte outside the occurrences is the input's byte.
C2_EveryOccurrencePatched ==
    Written =>
        LET B == fs0[file_path]
            out == fs[output_path]
        IN  /\ Len(out) = Len(B)
            /\ \A i \in Occ(B) : \A k \in 1..Len(old_pattern) :
                   out[i + k - 1] = IF k <= Len(new_pattern) THEN new_pattern[k] ELSE 0
            /\ \A j \in 1..Len(B) : ~ Covered(B, j) => out[j] = B[j]

C2_Witness ==
    /\ pc = "done" /\ exit_status = 0
    /\ Cardinality(Occ(fs0[file_path])) >= 2
    /\ \E j \in 1..Len(fs0[file_path]) : ~ Covered(fs0[file_path], j)

\* C3: when the old pattern does not occur in the input, no error is raised
\* (a run that the environment does not disturb ends with status 0) and the
\* file at the output path is byte-identical to the input.
C3_AbsentPatternCopies ==
    (Ran /\ Occ(fs0[argv[2]]) = {} /\ fault = "none") =>
        /\ raised = "none"
        /\ Written => fs[output_path] = fs0[argv[2]]
        /\ pc = "done" => exit_status = 0 /\ Written

C3_Witness ==
    /\ Ran /\ Occ(fs0[argv[2]]) = {} /\ fault = "none"
    /\ pc = "done"
    /\ Len(fs0[argv[2]]) > 0

\* C4: with one argument naming a path that does not exist, the existence
\* check is made, no file is ever opened, the file system stays as it was,
\* and the run ends with the error message and status 1.
C4_MissingInput ==
    (Len(argv) = 2 /\ argv[2] \notin DOMAIN fs0) =>
        /\ opened = << >> /\ handles = {} /\ fs = fs0
        /\ pc = "done" =>
               /\ probed = << argv[2] >>
               /\ stdout = << NotFoundMsg(argv[2]) >>
               /\ exit_status = 1

C4_Witness ==
    /\ Len(argv) = 2 /\ argv[2] \notin DOMAIN fs0
    /\ pc = "done"

\* C5: with a number of positional arguments other than one, the run prints
\* the usage message and exits with status 1; no path is checked, no file is
\* opened, the file system stays as it was.
C5_UsageError ==
    Len(argv) # 2 =>
        /\ probed = << >> /\ opened = << >> /\ fs = fs0
        /\ pc = "done" => stdout = << UsageMsg >> /\ exit_status = 1

C5_Witness ==
    /\ Len(argv) > 2
    /\ fs0 # NoFiles
    /\ pc = "done"

\* C6 as stated: only the first occurrence of '.so' in the input path is
\* replaced by '_fixed.so', any later occurrence is left as it is.
C6_FirstOccurrenceOnly ==
    Derived =>
        LET p == file_path
            O == PathOcc(p)
        IN  IF O = {} THEN output_path = p
            ELSE LET i == CHOOSE x \in O : \A y \in O : x <= y
                 IN  output_path = SubSeq(p, 1, i - 1) \o fixed_so
                                       \o SubSeq(p, i + Len(dot_so), Len(p))

\* C6 amended: every occurrence of '.so' in the input path is replaced by
\* '_fixed.so', and the characters outside the occurrences are kept in order.
C6_EveryOccurrenceReplaced ==
    Derived =>
        LET p == file_path
            d == Len(fixed_so) - Len(dot_so)
        IN  /\ Len(output_path) = Len(p) + d * Cardinality(PathOcc(p))
            /\ \A i \in PathOcc(p) :
                   SubSeq(output_path, i + d * Before(p, i),
                          i + d * Before(p, i) + Len(fixed_so) - 1) = fixed_so
            /\ \A j \in 1..Len(p) :
                   (~ \E i \in PathOcc(p) : i <= j /\ j < i + Len(dot_so))
                       => output_path[j + d * Before(p, j)] = p[j]

C6_Witness ==
    /\ Derived
    /\ Cardinality(PathOcc(file_path)) >= 2

\* C7 as stated: a successful run prints the output path exactly twice, the
\* message 'Fixed file written to' first and before the output file is
\* written, the message 'Successfully shortened' last, and ends with status 0.
C7_FixedMessageBeforeWrite ==
    /\ Written => Len(stdout) >= 1 /\ stdout[1] = FixedMsg(output_path)
    /\ (pc = "done" /\ exit_status = 0) =>
           stdout = << FixedMsg(output_path), SuccessMsg(output_path) >>

\* C7 amended: a successful run prints the output path exactly twice, the
\* message 'Fixed file written to' first, after the output file has been
\* written and closed, the message 'Successfully shortened' last, and ends
\* with status 0.
C7_FixedMessageAfterWrite ==
    /\ \A k \in DOMAIN stdout :
           stdout[k] = FixedMsg(output_path) =>
               /\ pc \in { "print_success", "done" }
               /\ fs[output_path] = modified_data
               /\ "wb" \notin handles
    /\ \A k \in DOMAIN stdout :
           stdout[k].text = SuccessMsg(output_path).text =>
               /\ pc = "done" /\ exit_status = 0
               /\ stdout = << FixedMsg(output_path), SuccessMsg(output_path) >>
    /\ (Ran /\ fault = "none" /\ pc = "done") =>
           stdout = << FixedMsg(output_path), SuccessMsg(output_path) >>

C7_Witness ==
    /\ pc = "done" /\ exit_status = 0
    /\ Len(stdout) = 2
    /\ output_path # file_path

\* C8: when the input exists but cannot be opened for reading, or the output
\* cannot be opened for writing, the exception ends the process with a
\* non-zero status: each open was tried once, neither message is printed,
\* and no file object is left open.
C8_OpenFailureEndsRun ==
    (Ran /\ fault \in { "read", "open_write" } /\ pc = "done") =>
        /\ raised = "OSError"
        /\ exit_status # 0
        /\ stdout = << >>
        /\ handles = {}
        /\ opened = IF fault = "read"
                    THEN << [ path |-> file_path, mode |-> "rb" ] >>
                    ELSE << [ path |-> file_path, mode |-> "rb" ],
                            [ path |-> output_path, mode |-> "wb" ] >>

C8_Witness ==
    /\ Ran /\ fault = "open_write" /\ pc = "done"
    /\ Len(opened) = 2

\* C9 as stated: the old pattern occupies 151 bytes, and in the output each
\* matched span is '.bss._ZN_short' (14 bytes) followed by zero bytes up to
\* 151 bytes in total, the size of the file unchanged.
C9_Span151 ==
    Written =>
        LET B == fs0[file_path]
            out == fs[output_path]
        IN  /\ Len(out) = Len(B)
            /\ \A i \in Occ(B) :
                   /\ Len(old_pattern) = 151
                   /\ SubSeq(out, i, i + 150) = new_pattern \o [ k \in 1..137 |-> 0 ]

\* C9 amended: the old pattern occupies 152 bytes, and in the output each
\* matched span is '.bss._ZN_short' (14 bytes) followed by 138 zero bytes,
\* 152 bytes in total, the size of the file unchanged.
C9_Span152 ==
    Written =>
        LET B == fs0[file_path]
            out == fs[output_path]
        IN  /\ Len(out) = Len(B)
            /\ \A i \in Occ(B) :
                   /\ Len(old_pattern) = 152
                   /\ Len(new_pattern) = 14
                   /\ SubSeq(out, i, i + 151) = new_pattern \o [ k \in 1..138 |-> 0 ]

C9_Witness ==
    /\ Written
    /\ Cardinality(Occ(fs0[file_path])) = 1
    /\ Len(fs0[file_path]) > Len(old_pattern)

\* C10: a successful run leaves the content of the input file as it was: the
\* write never lands on the file that was read.
C10_InputUntouched ==
    (pc = "done" /\ exit_status = 0) => fs[file_path] = fs0[file_path]
====
